---- MODULE Spec2Model ----
(***************************************************************************)
(* Model of the streaming N-Quads parser of toronto-events                 *)
(* (src/src/toronto_events/core/nquads_parser.py): the term decoder        *)
(* parse_term, the line tokenizer NQuadsParser.parse_line, the stream      *)
(* reader NQuadsParser.stream_file with its counters, and the subject      *)
(* grouper group_by_subject.                                               *)
(*                                                                         *)
(* A Python str is a sequence of one-character strings.  Indices in the    *)
(* string helpers are Python's (0-based); -1 is Python's "not found".      *)
(***************************************************************************)
EXTENDS Integers, Sequences, FiniteSets, TLC

(***************************************************************************)
(* Python str primitives                                                   *)
(***************************************************************************)
Min(a, b) == IF a <= b THEN a ELSE b

Max(a, b) == IF a >= b THEN a ELSE b

SetMax(S) == CHOOSE x \in S : \A y \in S : y <= x

SetMin(S) == CHOOSE x \in S : \A y \in S : x <= y

\* Python's None where a str may stand (Optional[str])
None == <<"None">>

\* Python's None where a Quad may stand (Optional[Quad])
NoQuad == [none |-> TRUE]

\* the characters str.strip() and str.split(None) treat as whitespace
Whitespace == {" ", "\t", "\n"}

\* a slice index as Python normalises it for a string of length n
NormIndex(i, n) == IF i < 0 THEN Max(0, n + i) ELSE Min(i, n)

\* s[a:b]
Slice(s, a, b) ==
    LET lo == NormIndex(a, Len(s))
        hi == NormIndex(b, Len(s))
    IN  IF lo < hi THEN SubSeq(s, lo + 1, hi) ELSE <<>>

\* s[a:]
SliceFrom(s, a) == Slice(s, a, Len(s))

\* s[:b]
SliceTo(s, b) == Slice(s, 0, b)

startswith(s, p) == Len(p) <= Len(s) /\ SubSeq(s, 1, Len(p)) = p

endswith(s, p) == Len(p) <= Len(s) /\ SubSeq(s, Len(s) - Len(p) + 1, Len(s)) = p

\* the indices at which sub occurs in s
Occurrences(s, sub) ==
    {i \in 0..(Len(s) - Len(sub)) : SubSeq(s, i + 1, i + Len(sub)) = sub}

\* the least index of a set of indices, -1 if it is empty
FirstOf(S) == IF S = {} THEN -1 ELSE SetMin(S)

\* the greatest index of a set of indices, -1 if it is empty
LastOf(S) == IF S = {} THEN -1 ELSE SetMax(S)

find(s, sub) == FirstOf(Occurrences(s, sub))

rfind(s, sub) == LastOf(Occurrences(s, sub))

contains(s, sub) == Occurrences(s, sub) # {}

\* s.rstrip(chars)
rstrip_chars(s, chars) ==
    SubSeq(s, 1, SetMin({k \in 0..Len(s) : \A j \in (k + 1)..Len(s) : s[j] \in chars}))

\* s.lstrip(chars)
lstrip_chars(s, chars) ==
    SubSeq(s, SetMax({k \in 1..(Len(s) + 1) : \A j \in 1..(k - 1) : s[j] \in chars}), Len(s))

rstrip(s) == rstrip_chars(s, Whitespace)

lstrip(s) == lstrip_chars(s, Whitespace)

strip(s) == lstrip(rstrip(s))

\* the indices of the whitespace characters of s
Spaces(s) == {i \in 0..(Len(s) - 1) : s[i + 1] \in Whitespace}

\* the parts of s.split(None, 1) for s without leading whitespace, its
\* first whitespace at index i
split_at(s1, i) ==
    IF s1 = <<>> THEN <<>>
    ELSE IF i = -1 THEN <<s1>>
    ELSE IF lstrip(SliceFrom(s1, i)) = <<>> THEN <<SliceTo(s1, i)>>
    ELSE <<SliceTo(s1, i), lstrip(SliceFrom(s1, i))>>

first_space_split(s1) == split_at(s1, FirstOf(Spaces(s1)))

\* s.split(None, 1): the list of at most two parts
split1(s) == first_space_split(lstrip(s))

\* the parts of s.rsplit(None, 1) for s without trailing whitespace, its
\* last whitespace at index i
rsplit_at(s1, i) ==
    IF s1 = <<>> THEN <<>>
    ELSE IF i = -1 THEN <<s1>>
    ELSE IF rstrip(SliceTo(s1, i)) = <<>> THEN <<SliceFrom(s1, i + 1)>>
    ELSE <<rstrip(SliceTo(s1, i)), SliceFrom(s1, i + 1)>>

last_space_split(s1) == rsplit_at(s1, LastOf(Spaces(s1)))

\* s.rsplit(None, 1): the list of at most two parts
rsplit1(s) == last_space_split(rstrip(s))

\* s.replace(old, new), old non-empty: the leftmost non-overlapping
\* occurrences are replaced; R[i] is the result for s[i:]
replace(s, old, new) ==
    LET R[k \in 0..Len(s)] ==
            LET i == Len(s) - k
            IN  IF k < Len(old) THEN SliceFrom(s, i)
                ELSE IF SubSeq(s, i + 1, i + Len(old)) = old THEN new \o R[k - Len(old)]
                ELSE <<s[i + 1]>> \o R[k - 1]
    IN  R[Len(s)]

UpperLetters ==
    <<"A", "B", "C", "D", "E", "F", "G", "H", "I", "J", "K", "L", "M",
      "N", "O", "P", "Q", "R", "S", "T", "U", "V", "W", "X", "Y", "Z">>

LowerLetters ==
    <<"a", "b", "c", "d", "e", "f", "g", "h", "i", "j", "k", "l", "m",
      "n", "o", "p", "q", "r", "s", "t", "u", "v", "w", "x", "y", "z">>

Digits == {"0", "1", "2", "3", "4", "5", "6", "7", "8", "9"}

IsUpper(c) == \E k \in 1..26 : UpperLetters[k] = c

IsAlpha(c) == \E k \in 1..26 : UpperLetters[k] = c \/ LowerLetters[k] = c

\* s.lower() on ASCII text
lower(s) ==
    [j \in 1..Len(s) |->
        IF IsUpper(s[j])
        THEN LowerLetters[CHOOSE k \in 1..26 : UpperLetters[k] = s[j]]
        ELSE s[j]]

(***************************************************************************)
(* Term Decoder: parse_term                                                *)
(***************************************************************************)
Term(value, term_type, datatype_or_lang) ==
    [value |-> value, term_type |-> term_type, datatype |-> datatype_or_lang]

\* the value of a literal: the three replace calls, in their order
unescape(raw) ==
    replace(replace(replace(raw, <<"\\", "\"">>, <<"\"">>),
                    <<"\\", "n">>, <<"\n">>),
            <<"\\", "t">>, <<"\t">>)

\* the literal of a value and the suffix after its closing quote
literal_term(value, suffix) ==
    IF startswith(suffix, <<"^", "^", "<">>)
    THEN Term(value, "literal", Slice(suffix, 3, -1))
    ELSE IF startswith(suffix, <<"@">>)
    THEN Term(value, "literal", <<"@">> \o SliceFrom(suffix, 1))
    ELSE Term(value, "literal", None)

\* the literal cut at value_end, the index of its closing quote
literal_cut(term, value_end) ==
    literal_term(unescape(Slice(term, 1, value_end)), SliceFrom(term, value_end + 1))

\* value_end from q = term.rfind('"')
literal_value_end(term, q) == IF q <= 0 THEN Len(term) ELSE q

\* the literal branch of parse_term
parse_literal(term) == literal_cut(term, literal_value_end(term, rfind(term, <<"\"">>)))

\* parse_term trimming the text between the brackets of an IRI
decode_term_trimming(term) ==
    IF startswith(term, <<"<">>) /\ endswith(term, <<">">>)
    THEN Term(strip(Slice(term, 1, -1)), "iri", None)
    ELSE IF startswith(term, <<"_", ":">>)
    THEN Term(SliceFrom(term, 2), "blank", None)
    ELSE IF startswith(term, <<"\"">>)
    THEN parse_literal(term)
    ELSE Term(term, "unknown", None)

\* parse_term giving an IRI itself as its datatype
decode_term_typed_iri(term) ==
    IF startswith(term, <<"<">>) /\ endswith(term, <<">">>)
    THEN Term(Slice(term, 1, -1), "iri", Slice(term, 1, -1))
    ELSE IF startswith(term, <<"_", ":">>)
    THEN Term(SliceFrom(term, 2), "blank", None)
    ELSE IF startswith(term, <<"\"">>)
    THEN parse_literal(term)
    ELSE Term(term, "unknown", None)

\* parse_term after term = term.strip()
decode_term(term) ==
    IF startswith(term, <<"<">>) /\ endswith(term, <<">">>)
    THEN Term(Slice(term, 1, -1), "iri", None)
    ELSE IF startswith(term, <<"_", ":">>)
    THEN Term(SliceFrom(term, 2), "blank", None)
    ELSE IF startswith(term, <<"\"">>)
    THEN parse_literal(term)
    ELSE Term(term, "unknown", None)

parse_term(t) == decode_term(strip(t))

(***************************************************************************)
(* Quad and its derived domain                                             *)
(***************************************************************************)
Quad(subject, subject_type, predicate, object_value, object_type, object_datatype, graph) ==
    [subject |-> subject, subject_type |-> subject_type, predicate |-> predicate,
     object_value |-> object_value, object_type |-> object_type,
     object_datatype |-> object_datatype, graph |-> graph]

SchemeChars ==
    {UpperLetters[k] : k \in 1..26} \cup {LowerLetters[k] : k \in 1..26}
        \cup Digits \cup {"+", "-", "."}

\* urllib.parse.urlparse(url).netloc: the text between the "//" that follows
\* the optional scheme and the next "/", "?" or "#"
netloc(url) ==
    LET u0 == lstrip_chars(url, {" "})
        u1 == SelectSeq(u0, LAMBDA c : c \notin {"\t", "\n"})
        i  == find(u1, <<":">>)
        has_scheme == /\ i > 0
                      /\ IsAlpha(u1[1])
                      /\ \A j \in 1..i : u1[j] \in SchemeChars
        u2 == IF has_scheme THEN SliceFrom(u1, i + 1) ELSE u1
        D  == {j \in 2..(Len(u2) - 1) : u2[j + 1] \in {"/", "?", "#"}}
        delim == IF D = {} THEN Len(u2) ELSE SetMin(D)
    IN  IF startswith(u2, <<"/", "/">>) THEN Slice(u2, 2, delim) ELSE <<>>

\* Quad.domain
domain(quad) == lower(netloc(quad.graph))

(***************************************************************************)
(* Line Tokenizer: NQuadsParser.parse_line                                 *)
(***************************************************************************)
\* the backward scan for the literal's opening quote: the highest index
\* below quote_end holding an unescaped quote that starts rest or follows a
\* space or tab; -1 if there is none
scan_opening_quote(rest, quote_end) ==
    LET C == {i \in 0..(quote_end - 1) :
                /\ rest[i + 1] = "\""
                /\ (i = 0 \/ rest[i] # "\\")
                /\ (i = 0 \/ rest[i] \in {" ", "\t"})}
    IN  IF C = {} THEN -1 ELSE SetMax(C)

ObjectSplit(ok, object_part, rest) == [ok |-> ok, object_part |-> object_part, rest |-> rest]

ObjectError == ObjectSplit(FALSE, <<>>, <<>>)

\* the literal from its opening quote on is the object; no opening quote
\* (quote_start = -1) is a parse error
cut_at_quote(rest, quote_start) ==
    IF quote_start # -1
    THEN ObjectSplit(TRUE, SliceFrom(rest, quote_start), strip(SliceTo(rest, quote_start)))
    ELSE ObjectError

\* the typed literal whose closing quote should be at quote_end
typed_literal_at(rest, quote_end) ==
    IF quote_end >= 0 /\ rest[quote_end + 1] = "\""
    THEN cut_at_quote(rest, scan_opening_quote(rest, quote_end))
    ELSE ObjectError

\* rest ends with ">" and holds "^^<": the object is a typed literal
object_typed_literal(rest) == typed_literal_at(rest, rfind(rest, <<"^", "^", "<">>) - 1)

\* the IRI that starts after obj_start
iri_at(rest, obj_start) ==
    ObjectSplit(TRUE, SliceFrom(rest, obj_start + 1), strip(SliceTo(rest, obj_start)))

\* obj_start, from first = rest.rfind(' <')
iri_start(rest, first) == IF first = -1 THEN rfind(rest, <<"\t", "<">>) ELSE first

\* rest ends with ">": the object is an IRI
object_iri(rest) == iri_at(rest, iri_start(rest, rfind(rest, <<" ", "<">>)))

\* rest without a "^^<" suffix
before_datatype(rest) ==
    IF contains(rest, <<"^", "^", "<">>)
    THEN SliceTo(rest, rfind(rest, <<"^", "^", "<">>))
    ELSE rest

\* the index of the literal's closing quote, a language tag trimmed
literal_quote_end(rest_before) ==
    IF endswith(rest_before, <<"\"">>)
    THEN Len(rest_before) - 1
    ELSE IF contains(Slice(rest_before, -10, Len(rest_before)), <<"@">>)
    THEN Len(SliceTo(rest_before, rfind(rest_before, <<"@">>))) - 1
    ELSE rfind(rest_before, <<"\"">>)

\* rest ends with a quote or has "@" ten characters from its end: the
\* object is an untyped or language-tagged literal
object_literal(rest) ==
    cut_at_quote(rest, scan_opening_quote(rest, literal_quote_end(before_datatype(rest))))

\* the two parts of rest.rsplit(None, 1), or a parse error
blank_from(parts) ==
    IF Len(parts) # 2 THEN ObjectError ELSE ObjectSplit(TRUE, parts[2], parts[1])

\* otherwise the object is a blank node: the last whitespace-separated token
object_blank(rest) == blank_from(rsplit1(rest))

\* the object boundary without the typed-literal branch
split_object_no_typed(rest) ==
    IF endswith(rest, <<">">>)
    THEN object_iri(rest)
    ELSE IF endswith(rest, <<"\"">>) \/ startswith(Slice(rest, -10, Len(rest)), <<"@">>)
    THEN object_literal(rest)
    ELSE object_blank(rest)

\* the object boundary, by the tail of rest
split_object(rest) ==
    IF endswith(rest, <<">">>) /\ contains(rest, <<"^", "^", "<">>)
    THEN object_typed_literal(rest)
    ELSE IF endswith(rest, <<">">>)
    THEN object_iri(rest)
    ELSE IF endswith(rest, <<"\"">>) \/ startswith(Slice(rest, -10, Len(rest)), <<"@">>)
    THEN object_literal(rest)
    ELSE object_blank(rest)

\* the terminator removed only where it is " ."
strip_terminator_strict(line) ==
    IF ~endswith(line, <<" ", ".">>) THEN line ELSE SliceTo(line, -2)

\* the line without its terminator
strip_terminator(line) ==
    IF ~endswith(line, <<" ", ".">>)
    THEN rstrip(rstrip_chars(line, {"."}))
    ELSE SliceTo(line, -2)

Parts(outcome, subject_part, predicate_part, object_part, graph_part) ==
    [status |-> outcome, subject_part |-> subject_part, predicate_part |-> predicate_part,
     object_part |-> object_part, graph_part |-> graph_part]

PartsError == Parts("error", <<>>, <<>>, <<>>, <<>>)

\* the two parts taken in the other order
subject_predicate_swapped(parts, object_part, graph_part) ==
    IF Len(parts) # 2
    THEN PartsError
    ELSE Parts("ok", parts[2], parts[1], object_part, graph_part)

\* what remains must be subject and predicate: parts = rest.split(None, 1)
subject_predicate(parts, object_part, graph_part) ==
    IF Len(parts) # 2
    THEN PartsError
    ELSE Parts("ok", parts[1], parts[2], object_part, graph_part)

\* the object found (or not) in rest, the graph already isolated
with_object(obj, graph_part) ==
    IF ~obj.ok
    THEN PartsError
    ELSE subject_predicate(split1(obj.rest), obj.object_part, graph_part)

\* the graph is the last " <" of the line and what follows it
split_graph(line, last_iri_start) ==
    IF last_iri_start = -1
    THEN PartsError
    ELSE with_object(split_object(strip(SliceTo(line, last_iri_start))),
                     SliceFrom(line, last_iri_start + 1))

\* the tokens of a line that is neither empty nor a comment
tokenize(line) == split_graph(line, rfind(line, <<" ", "<">>))

\* parse_line tokenizing empty lines and comments like any other line
stripped_line_parts_no_skip(line) == tokenize(strip_terminator(line))

\* parse_line after line = line.strip()
stripped_line_parts(line) ==
    IF line = <<>> \/ startswith(line, <<"#">>)
    THEN Parts("skip", <<>>, <<>>, <<>>, <<>>)
    ELSE tokenize(strip_terminator(line))

\* the four isolated tokens of a line: status "skip" for an empty line or a
\* comment, "error" where parse_line counts a parse error, "ok" otherwise
line_parts(raw) == stripped_line_parts(strip(raw))

\* the Quad of the four decoded terms
assemble_quad(s, p, o, g) ==
    Quad(s.value, s.term_type, p.value, o.value, o.term_type, o.datatype, g.value)

\* the Quad assembled from the four isolated tokens
build_quad(p) ==
    assemble_quad(parse_term(p.subject_part), parse_term(p.predicate_part),
                  parse_term(p.object_part), parse_term(p.graph_part))

\* parse_line with the failure paths that forget stats['parse_errors'] += 1
parse_result_uncounted(p) ==
    IF p.status = "ok" THEN [quad |-> build_quad(p), errors |-> 0]
    ELSE [quad |-> NoQuad, errors |-> 0]

\* what parse_line does with the tokens of a line
parse_result(p) ==
    IF p.status = "ok" THEN [quad |-> build_quad(p), errors |-> 0]
    ELSE IF p.status = "error" THEN [quad |-> NoQuad, errors |-> 1]
    ELSE [quad |-> NoQuad, errors |-> 0]

\* parse_line(line): the Quad returned (NoQuad for a skipped or failed line)
\* and the amount added to stats['parse_errors']
parse_line(raw) == parse_result(line_parts(raw))

(***************************************************************************)
(* Input lines: N-Quads statements written from tokens, and malformed ones *)
(***************************************************************************)
IRI(x) == <<"<">> \o x \o <<">">>

BNode(label) == <<"_", ":">> \o label

Lit(body) == <<"\"">> \o body \o <<"\"">>

TypedLit(body, dt) == Lit(body) \o <<"^", "^">> \o IRI(dt)

LangLit(body, tag) == Lit(body) \o <<"@">> \o tag

\* three terms and the terminator, no graph
Stmt3(s, p, o) == s \o <<" ">> \o p \o <<" ">> \o o \o <<" ", ".">>

\* subject predicate object graph .
Stmt(s, p, o, g) == s \o <<" ">> \o p \o <<" ">> \o o \o <<" ">> \o g \o <<" ", ".">>

Url(scheme, host, path) == scheme \o <<":", "/", "/">> \o host \o path

HostT == <<"t", ".", "c", "a">>

HostWwwT == <<"w", "w", "w", ".">> \o HostT

HostAT == <<"a", ".">> \o HostT

HostAWwwT == <<"a", ".">> \o HostWwwT

HostE == <<"e", ".", "c", "o", "m">>

SubjectTokens == {IRI(<<"s">>), IRI(<<"u">>), BNode(<<"b">>)}

PredicateTokens == {IRI(<<"p">>)}

ObjectTokens ==
    {IRI(<<"o">>), BNode(<<"o">>), LangLit(<<"v">>, <<"e", "n">>),
     TypedLit(<<"v", " ", "w">>, <<"d">>), Lit(<<"a", " ", "<", "b">>)}

GraphTokens ==
    {IRI(Url(<<"h">>, HostT, <<"/">>)),
     IRI(Url(<<"h">>, HostWwwT, <<"/", "x">>)),
     IRI(Url(<<"H">>, <<"E", ".", "C", "O", "M">>, <<"/">>)),
     IRI(Url(<<"h">>, HostAWwwT, <<"/">>))}

\* the statements of four well-formed terms
WellFormedLines ==
    {Stmt(s, p, o, g) : s \in SubjectTokens, p \in PredicateTokens,
                        o \in ObjectTokens, g \in GraphTokens}

\* the statements of three well-formed terms: the graph field is missing
ThreeTermLines ==
    {Stmt3(s, p, o) : s \in SubjectTokens, p \in PredicateTokens, o \in ObjectTokens}

\* the lines a file is written from
LinePool ==
    << Stmt(IRI(<<"s">>), IRI(<<"p">>), IRI(<<"o">>), IRI(Url(<<"h">>, HostT, <<"/">>))),
       Stmt(BNode(<<"b">>), IRI(<<"p">>), LangLit(<<"v">>, <<"e", "n">>),
            IRI(Url(<<"h">>, HostWwwT, <<"/", "x">>))),
       Stmt(IRI(<<"s">>), IRI(<<"p">>), TypedLit(<<"v", " ", "w">>, <<"d">>),
            IRI(Url(<<"H">>, <<"E", ".", "C", "O", "M">>, <<"/">>))),
       Stmt(IRI(<<"u">>), IRI(<<"p">>), BNode(<<"o">>), IRI(Url(<<"h">>, HostAWwwT, <<"/">>))),
       <<>>,
       <<"#", " ", "c">>,
       Stmt3(IRI(<<"s">>), IRI(<<"p">>), IRI(<<"o">>)),
       Stmt(Lit(<<"a">>), IRI(<<"p">>), IRI(<<"o">>), IRI(Url(<<"h">>, HostT, <<"/">>))),
       Stmt(<<"x">>, IRI(<<"p">>), IRI(<<"o">>), IRI(Url(<<"h">>, HostT, <<"/">>))),
       Stmt3(IRI(<<"s">>), IRI(<<"p">>), Lit(<<"a", " ", "<", "b">>)),
       <<" ", "\t">>,
       <<"#">> \o Stmt(IRI(<<"s">>), IRI(<<"p">>), IRI(<<"o">>), IRI(Url(<<"h">>, HostT, <<"/">>))) >>

LineIds == 1..Len(LinePool)

\* the text of a physical line of the file, with its line end
LineText(id) == LinePool[id] \o <<"\n">>

\* parse_line on each line of the pool
ParseTable == [id \in LineIds |-> parse_line(LineText(id))]

(***************************************************************************)
(* Inputs of direct parse_line and parse_term calls                        *)
(***************************************************************************)
\* the longest text a generated token is written around
MaxTextLen == 2

\* the texts of at most n characters of A
SeqsUpTo(A, n) == UNION {[1..k -> A] : k \in 0..n}

\* the characters of literal values: no double quote and no backslash
ValueChars == {"a", " ", "<", ">", "@", "^", "."}

\* characters an IRI or a blank node label is written with
IriChars == {"a", ":", "/", ".", "#", "@"}

\* the characters between the brackets of a token handed to parse_term
TermChars == {"a", " ", "<", ">", "\"", "\\", "_", ":"}

Values == SeqsUpTo(ValueChars, MaxTextLen)

IriTexts == SeqsUpTo(IriChars, MaxTextLen) \ {<<>>}

TermTexts == SeqsUpTo(TermChars, MaxTextLen)

LanguageTags == {<<"e", "n">>, <<"f", "r", "-", "C", "A">>}

Datatypes == {<<"d">>, <<"x", ":", "/", "/", "w", "/", "X", "#", "d">>}

\* subject predicate object graph, single spaces between, no terminator
StmtBody(s, p, o, g) == s \o <<" ">> \o p \o <<" ">> \o o \o <<" ">> \o g

\* the line ends a statement may have: " .", "." or nothing
Terminators == {<<" ", ".">>, <<".">>, <<>>}

\* an input: the text handed to the function, the form it was written in
\* and what it was written from
Input(form, text, expect) == [form |-> form, text |-> text, expect |-> expect]

NoInput == Input("none", <<>>, <<>>)

\* S <p> "V"^^<D> <g> .
TypedLiteralInputs ==
    {Input("typed", Stmt(S, IRI(<<"p">>), TypedLit(V, D), IRI(<<"g">>)),
           [value |-> V, datatype |-> D]) :
        S \in {IRI(<<"s">>), BNode(<<"b">>)}, V \in Values, D \in Datatypes}

NewYork == <<"N", "e", "w", " ", "Y", "o", "r", "k">>

\* <s> <p> "V"@tag <g> .
LanguageLiteralInputs ==
    {Input("lang", Stmt(IRI(<<"s">>), IRI(<<"p">>), LangLit(V, tag), IRI(<<"g">>)),
           [value |-> V, language |-> tag]) :
        V \in Values \cup {NewYork}, tag \in LanguageTags}

\* four terms, the object an IRI: _:b0 <p> <o> <g> . itself, and one of the
\* five places written from each text, the others fixed
IriStatementInputs ==
    {Input("iri4", Stmt(BNode(<<"b", "0">>), IRI(<<"p">>), IRI(<<"o">>), IRI(<<"g">>)),
           Quad(<<"b", "0">>, "blank", <<"p">>, <<"o">>, "iri", None, <<"g">>))}
    \cup
    {Input("iri4", Stmt(IRI(X), IRI(<<"p">>), IRI(<<"o">>), IRI(<<"g">>)),
           Quad(X, "iri", <<"p">>, <<"o">>, "iri", None, <<"g">>)) : X \in IriTexts}
    \cup
    {Input("iri4", Stmt(BNode(X), IRI(<<"p">>), IRI(<<"o">>), IRI(<<"g">>)),
           Quad(X, "blank", <<"p">>, <<"o">>, "iri", None, <<"g">>)) : X \in IriTexts}
    \cup
    {Input("iri4", Stmt(BNode(<<"b", "0">>), IRI(X), IRI(<<"o">>), IRI(<<"g">>)),
           Quad(<<"b", "0">>, "blank", X, <<"o">>, "iri", None, <<"g">>)) : X \in IriTexts}
    \cup
    {Input("iri4", Stmt(IRI(<<"s">>), IRI(<<"p">>), IRI(X), IRI(<<"g">>)),
           Quad(<<"s">>, "iri", <<"p">>, X, "iri", None, <<"g">>)) : X \in IriTexts}
    \cup
    {Input("iri4", Stmt(IRI(<<"s">>), IRI(<<"p">>), IRI(<<"o">>), IRI(X)),
           Quad(<<"s">>, "iri", <<"p">>, <<"o">>, "iri", None, X)) : X \in IriTexts}

\* the statements of four well-formed terms, with each line end
TerminatorInputs ==
    {Input("terminator", StmtBody(S, P, O, G) \o e,
           [with_terminator |-> StmtBody(S, P, O, G) \o <<" ", ".">>]) :
        S \in SubjectTokens, P \in PredicateTokens, O \in ObjectTokens,
        G \in GraphTokens, e \in Terminators}

\* the first n of the tokens <s> <x> <p>, an object and a graph: what is
\* left before the object is n whitespace-separated tokens
RemainderTokens == <<IRI(<<"s">>), IRI(<<"x">>), IRI(<<"p">>)>>

Joined(tokens, sep) ==
    LET join[k \in 0..Len(tokens)] ==
            IF k = 0 THEN <<>>
            ELSE IF k = 1 THEN tokens[1]
            ELSE join[k - 1] \o sep \o tokens[k]
    IN  join[Len(tokens)]

TokenCountInputs ==
    {Input("tokens",
           Joined(SubSeq(RemainderTokens, 1, n) \o <<O, IRI(<<"g">>), <<".">>>>, sep),
           [tokens |-> n]) :
        n \in 1..Len(RemainderTokens), O \in ObjectTokens, sep \in {<<" ">>, <<"\t">>}}

\* <X> <g> . with nothing before <X>: the remainder <X> ends with ">" and
\* has no " <" and no tab before a "<" at which its object would start
NoObjectStartTexts ==
    {<<"a">>, <<"a", " ">>, <<"a", " ", "b">>, <<"a", "\t", "b">>,
     <<"a", " ", "b", " ", "c">>}

NoObjectStartInputs ==
    {Input("noobj", Joined(<<IRI(X), IRI(<<"g">>), <<".">>>>, <<" ">>), [remainder |-> IRI(X)]) :
        X \in NoObjectStartTexts}

\* the lines handed to parse_line directly
LineInputs ==
    TypedLiteralInputs \cup LanguageLiteralInputs \cup IriStatementInputs
        \cup TerminatorInputs \cup TokenCountInputs \cup NoObjectStartInputs

\* the tokens <X>
IriTermInputs == {Input("iri", IRI(X), Term(X, "iri", None)) : X \in TermTexts}

\* what a literal's body is written from: a plain character, the four
\* escapes \" \n \t \\ with the character each stands for, and the start of
\* a \uXXXX escape, which stands for itself
EscapeUnits ==
    {[raw |-> <<"a">>, decoded |-> <<"a">>],
     [raw |-> <<"\\", "\"">>, decoded |-> <<"\"">>],
     [raw |-> <<"\\", "n">>, decoded |-> <<"\n">>],
     [raw |-> <<"\\", "t">>, decoded |-> <<"\t">>],
     [raw |-> <<"\\", "\\">>, decoded |-> <<"\\">>],
     [raw |-> <<"\\", "u">>, decoded |-> <<"\\", "u">>]}

RawOf(units) == Joined([k \in 1..Len(units) |-> units[k].raw], <<>>)

DecodedOf(units) == Joined([k \in 1..Len(units) |-> units[k].decoded], <<>>)

\* the tokens "body", body a sequence of units
LiteralTermInputs ==
    {Input("literal", Lit(RawOf(units)), Term(DecodedOf(units), "literal", None)) :
        units \in SeqsUpTo(EscapeUnits, MaxTextLen)}

\* the tokens handed to parse_term directly
TermInputs == IriTermInputs \cup LiteralTermInputs

(***************************************************************************)
(* Stream Reader: NQuadsParser state and stream_file                       *)
(***************************************************************************)
\* the longest file
MaxLines == 2

\* the most direct calls of parse_line
MaxCalls == 1

\* the most writes the caller makes to a mapping get_stats returned
MaxWrites == 1

\* the direct call has not returned yet
Pending == [pending |-> TRUE]

\* the generators stream_file can have returned: a first and a second pass
Streams == {1, 2}

\* allowed_domains as given to NQuadsParser(): None, or a set of domains
NoAllowList == [given |-> FALSE, domains |-> {}]

AllowList(domains) == [given |-> TRUE, domains |-> domains]

AllowLists == {NoAllowList, AllowList({}), AllowList({HostT}), AllowList({HostAT})}

\* Python's truth value of self.allowed_domains
truthy(allowed) == allowed.given /\ allowed.domains # {}

\* the files of at most MaxLines lines, each from the lines ids of the pool
FilesOver(ids) == UNION {[1..n -> ids] : n \in 0..MaxLines}

Files == FilesOver(LineIds)

\* the lines the caller hands to parse_line itself, and the lines of the
\* files it then streams: a statement kept by every filter, one from another
\* domain, an empty line and a statement without its graph
DirectLineIds == {1, 3, 5, 7}

Counters == {"lines_read", "quads_parsed", "parse_errors", "domain_filtered"}

\* what get_stats has not returned yet
NoStats == [none |-> TRUE]

\* the longest input of group_by_subject
MaxQuads == 6

\* the quads group_by_subject is fed: two subjects A and B, two quads of
\* subject A that differ in the predicate, and a blank node labelled A
GroupQuad(subject, subject_type, predicate) ==
    Quad(subject, subject_type, predicate, <<"o">>, "iri", None, <<"g">>)

GroupQuads ==
    {GroupQuad(<<"A">>, "iri", <<"p">>), GroupQuad(<<"A">>, "iri", <<"q">>),
     GroupQuad(<<"B">>, "iri", <<"p">>), GroupQuad(<<"A">>, "blank", <<"p">>)}

QuadInputs == UNION {[1..n -> GroupQuads] : n \in 0..MaxQuads}

VARIABLES
    allowed_domains,  \* self.allowed_domains
    stats,            \* self.stats
    file,             \* the lines of the file at path, as ids of LinePool
    status,           \* per generator: idle (not created), created, running,
                      \* suspended (at its yield), exhausted
    pos,              \* per generator: the number of lines it has read
    yielded,          \* per generator: the Quads it has yielded, in order
    yield_lineno,     \* per generator: the line number each Quad came from
    end_stats,        \* per generator: the counters when it was exhausted
    snapshot,         \* the mapping the last get_stats call returned
    calls,            \* the number of direct parse_line calls made
    last_result,      \* what the last direct parse_line call returned
    handle,           \* per generator: its file handle: none, open, released
    failure,          \* per generator: the exception it raised to the caller
    snapshot_alias,   \* the returned mapping is the parser's own dict
    writes,           \* the number of writes the caller made to that mapping
    arg,              \* the input of a direct parse_line or parse_term call:
                      \* its text and what it was written from
    ret,              \* what that call returned
    quads,            \* group_by_subject: the input sequence
    taken,            \* group_by_subject: the number of quads pulled from it
    current_subject,  \* group_by_subject: current_subject
    current_group,    \* group_by_subject: current_group
    groups,           \* group_by_subject: the groups yielded, in order
    group_pc          \* group_by_subject: idle, loop (running the for loop),
                      \* yielded (suspended at the yield inside the loop),
                      \* final (suspended at the last yield), done

VARIABLES
    shutdown_requested,  \* the global flag the SIGINT handler sets
    to_download,         \* download_all: the queue of file names
    results,             \* download_all: results, its three lists
    file_index,          \* download_all: i of the loop over to_download
    attempt,             \* download_file: attempt of its retry loop
    attempted,           \* the files download_file was called for, in order
    download_pc          \* where the script is: idle, queued (before the
                         \* loop), top (line 277), attempt (93), request
                         \* (97-132), reading (137), read (142), waiting
                         \* (182, 197), recorded (296), returned, exited

parser_vars == <<allowed_domains, stats, file, status, pos, yielded, yield_lineno,
                 end_stats, snapshot, calls, last_result, handle, failure,
                 snapshot_alias, writes, arg, ret>>

\* the caller's own mapping and the pure-function harness
caller_vars == <<snapshot_alias, writes, arg, ret>>

group_vars == <<quads, taken, current_subject, current_group, groups, group_pc>>

download_vars == <<shutdown_requested, to_download, results, file_index, attempt,
                   attempted, download_pc>>

download_vars_but_pc == <<shutdown_requested, to_download, results, file_index,
                          attempt, attempted>>

vars == <<parser_vars, group_vars, download_vars>>

\* domain.replace('www.', '')
domain_no_www(d) == replace(d, <<"w", "w", "w", ".">>, <<>>)

\* the domain filter of stream_file: TRUE when the quad is not dropped
filter_keeps(allowed, quad) ==
    IF truthy(allowed)
    THEN IF domain(quad) \notin allowed.domains
         THEN domain_no_www(domain(quad)) \in allowed.domains
         ELSE TRUE
    ELSE TRUE

\* the counters with parse_errors assigned where stream_file adds to it
count_line_assigning(st, r, kept) ==
    IF r.quad = NoQuad
    THEN [st EXCEPT !.lines_read = @ + 1, !.parse_errors = r.errors]
    ELSE IF ~kept
    THEN [st EXCEPT !.lines_read = @ + 1, !.parse_errors = r.errors,
                    !.domain_filtered = @ + 1]
    ELSE [st EXCEPT !.lines_read = @ + 1, !.parse_errors = r.errors,
                    !.quads_parsed = @ + 1]

\* the counters with a filtered quad counted as parsed too
count_line_filtered_as_parsed(st, r, kept) ==
    IF r.quad = NoQuad
    THEN [st EXCEPT !.lines_read = @ + 1, !.parse_errors = @ + r.errors]
    ELSE IF ~kept
    THEN [st EXCEPT !.lines_read = @ + 1, !.parse_errors = @ + r.errors,
                    !.domain_filtered = @ + 1, !.quads_parsed = @ + 1]
    ELSE [st EXCEPT !.lines_read = @ + 1, !.parse_errors = @ + r.errors,
                    !.quads_parsed = @ + 1]

\* the counters after one line: r is what parse_line did with it
count_line(st, r, kept) ==
    IF r.quad = NoQuad
    THEN [st EXCEPT !.lines_read = @ + 1, !.parse_errors = @ + r.errors]
    ELSE IF ~kept
    THEN [st EXCEPT !.lines_read = @ + 1, !.parse_errors = @ + r.errors,
                    !.domain_filtered = @ + 1]
    ELSE [st EXCEPT !.lines_read = @ + 1, !.parse_errors = @ + r.errors,
                    !.quads_parsed = @ + 1]

\* the caller runs one thing at a time: no generator is in the middle of a pull
NoneRunning == \A t \in Streams : status[t] # "running"

\* the file opened without a with block: nothing closes it
handle_kept(h) == h

\* leaving the block of `with opener() as f`, by its end, by an exception
\* or by GeneratorExit: an open handle is closed
with_exit(h) == IF h = "open" THEN "released" ELSE h

\* the handle of a generator once its body has run to the loop: the first
\* pull runs opener()
opened(st, h) == IF st = "created" THEN "open" ELSE h

\* the mapping the caller holds, read after the parser's counters became st:
\* the parser's own dict shows them, a copy does not
seen_by_caller(snap, aliased, st) == IF aliased THEN st ELSE snap

\* get_stats returning self.stats itself
stats_itself(st) == [aliased |-> TRUE, value |-> st]

\* self.stats.copy(): a new dict with the same items
stats_copy(st) == [aliased |-> FALSE, value |-> st]

\* stream_file counting an I/O error as a parse error
stats_after_io_error_counted(st) == [st EXCEPT !.parse_errors = @ + 1]

\* an exception of stat(), of opener() or of a read passes through
\* stream_file, which has no except clause: self.stats stays as it is
stats_after_io_error(st) == st

\* one turn of the loop of stream_file in generator s: the next line is read,
\* parsed, filtered and counted, and a kept Quad is yielded; at end of file
\* the generator is exhausted.  The first pull opens the file; the end of the
\* loop leaves the with block
stream_file(s) ==
    /\ status[s] \in {"created", "suspended", "running"}
    /\ \A t \in Streams \ {s} : status[t] # "running"
    /\ IF pos[s] = Len(file)
       THEN /\ status' = [status EXCEPT ![s] = "exhausted"]
            /\ end_stats' = [end_stats EXCEPT ![s] = stats]
            /\ handle' = [handle EXCEPT ![s] = with_exit(opened(status[s], @))]
            /\ UNCHANGED <<stats, pos, yielded, yield_lineno>>
       ELSE LET r    == ParseTable[file[pos[s] + 1]]
                kept == r.quad # NoQuad /\ filter_keeps(allowed_domains, r.quad)
            IN  /\ pos' = [pos EXCEPT ![s] = @ + 1]
                /\ stats' = count_line(stats, r, kept)
                /\ handle' = [handle EXCEPT ![s] = opened(status[s], @)]
                /\ IF kept
                   THEN /\ yielded' = [yielded EXCEPT ![s] = Append(@, r.quad)]
                        /\ yield_lineno' = [yield_lineno EXCEPT ![s] = Append(@, pos[s] + 1)]
                        /\ status' = [status EXCEPT ![s] = "suspended"]
                   ELSE /\ status' = [status EXCEPT ![s] = "running"]
                        /\ UNCHANGED <<yielded, yield_lineno>>
                /\ UNCHANGED end_stats
    /\ snapshot' = seen_by_caller(snapshot, snapshot_alias, stats')
    /\ UNCHANGED <<allowed_domains, file, calls, last_result, failure, caller_vars,
                   group_vars, download_vars>>

\* the caller, its first pass over the file exhausted, calls stream_file(path)
\* on the same parser again
second_pass ==
    /\ status[1] = "exhausted"
    /\ status[2] = "idle"
    /\ status' = [status EXCEPT ![2] = "created"]
    /\ UNCHANGED <<allowed_domains, stats, file, pos, yielded, yield_lineno, end_stats,
                   snapshot, calls, last_result, handle, failure, caller_vars,
                   group_vars, download_vars>>

\* the caller calls stream_file(path) on the same parser again while its
\* first generator is still open
open_second ==
    /\ status[1] \in {"created", "suspended"}
    /\ status[2] = "idle"
    /\ status' = [status EXCEPT ![2] = "created"]
    /\ UNCHANGED <<allowed_domains, stats, file, pos, yielded, yield_lineno, end_stats,
                   snapshot, calls, last_result, handle, failure, caller_vars,
                   group_vars, download_vars>>

\* the first pull of generator s fails before a handle exists: path.stat()
\* or opener() raises (missing file, permission denied)
open_fails(s) ==
    /\ status[s] = "created"
    /\ NoneRunning
    /\ status' = [status EXCEPT ![s] = "failed"]
    /\ failure' = [failure EXCEPT ![s] = "OSError"]
    /\ stats' = stats_after_io_error(stats)
    /\ snapshot' = seen_by_caller(snapshot, snapshot_alias, stats')
    /\ UNCHANGED <<allowed_domains, file, pos, yielded, yield_lineno, end_stats,
                   calls, last_result, handle, caller_vars, group_vars, download_vars>>

\* a read of the next line raises in generator s (a corrupt gzip stream is
\* found at the first read, the file being open by then): the exception
\* leaves the with block and reaches the caller
read_fails(s) ==
    /\ status[s] \in {"created", "suspended"}
    /\ NoneRunning
    /\ status' = [status EXCEPT ![s] = "failed"]
    /\ failure' = [failure EXCEPT ![s] = "OSError"]
    /\ handle' = [handle EXCEPT ![s] = with_exit(opened(status[s], @))]
    /\ stats' = stats_after_io_error(stats)
    /\ snapshot' = seen_by_caller(snapshot, snapshot_alias, stats')
    /\ UNCHANGED <<allowed_domains, file, pos, yielded, yield_lineno, end_stats,
                   calls, last_result, caller_vars, group_vars, download_vars>>

\* the caller stops pulling from generator s and the generator is closed (by
\* close() or when its last reference goes): GeneratorExit is raised at the
\* yield and leaves the with block; a generator never started has no handle
close(s) ==
    /\ status[s] \in {"created", "suspended"}
    /\ NoneRunning
    /\ status' = [status EXCEPT ![s] = "closed"]
    /\ handle' = [handle EXCEPT ![s] = with_exit(@)]
    /\ UNCHANGED <<allowed_domains, stats, file, pos, yielded, yield_lineno, end_stats,
                   snapshot, calls, last_result, failure, caller_vars, group_vars, download_vars>>

\* get_stats(): a copy of the counters
get_stats ==
    /\ NoneRunning
    /\ snapshot' = stats_copy(stats).value
    /\ snapshot_alias' = stats_copy(stats).aliased
    /\ UNCHANGED <<allowed_domains, stats, file, status, pos, yielded, yield_lineno,
                   end_stats, calls, last_result, handle, failure, writes, arg, ret,
                   group_vars, download_vars>>

\* the caller writes to the mapping get_stats returned: counter c of it
\* becomes one more
write_snapshot(c) ==
    /\ NoneRunning
    /\ snapshot # NoStats
    /\ writes < MaxWrites
    /\ writes' = writes + 1
    /\ snapshot' = [snapshot EXCEPT ![c] = @ + 1]
    /\ stats' = IF snapshot_alias THEN snapshot' ELSE stats
    /\ UNCHANGED <<allowed_domains, file, status, pos, yielded, yield_lineno, end_stats,
                   calls, last_result, handle, failure, snapshot_alias, arg, ret,
                   group_vars, download_vars>>

\* a direct call parse_line(line) by the caller
call_parse_line(id) ==
    /\ NoneRunning
    /\ calls < MaxCalls
    /\ calls' = calls + 1
    /\ last_result' = ParseTable[id].quad
    /\ stats' = [stats EXCEPT !.parse_errors = @ + ParseTable[id].errors]
    /\ snapshot' = seen_by_caller(snapshot, snapshot_alias, stats')
    /\ UNCHANGED <<allowed_domains, file, status, pos, yielded, yield_lineno, end_stats,
                   handle, failure, caller_vars, group_vars, download_vars>>

\* parse_line(arg), called once on a parser that streams nothing
direct_parse_line ==
    /\ ret = Pending
    /\ ret' = parse_line(arg.text).quad
    /\ stats' = [stats EXCEPT !.parse_errors = @ + parse_line(arg.text).errors]
    /\ UNCHANGED <<allowed_domains, file, status, pos, yielded, yield_lineno, end_stats,
                   snapshot, calls, last_result, handle, failure, snapshot_alias,
                   writes, arg, group_vars, download_vars>>

\* parse_term(arg), called once
direct_parse_term ==
    /\ ret = Pending
    /\ ret' = parse_term(arg.text)
    /\ UNCHANGED <<allowed_domains, stats, file, status, pos, yielded, yield_lineno,
                   end_stats, snapshot, calls, last_result, handle, failure,
                   snapshot_alias, writes, arg, group_vars, download_vars>>

(***************************************************************************)
(* Subject Grouper: group_by_subject                                       *)
(***************************************************************************)
\* the comparison by identity (is not): no quad's subject is the object
\* current_subject holds
subject_changed_by_identity(quad, subject) == TRUE

\* quad.subject != current_subject
subject_changed(quad, subject) == quad.subject # subject

\* the yield without its guard
emits_unguarded(group) == TRUE

\* a yield of the groups of two quads or more only
emits_when_full(group) == Len(group) >= 2

\* if current_group: yield current_group
emits(group) == group # <<>>

\* the generator runs to its next yield or to its end: one quad is pulled
\* from the input and joins the open group or closes it
group_by_subject ==
    /\ group_pc = "loop"
    /\ IF taken = Len(quads)
       THEN /\ IF emits(current_group)
               THEN /\ groups' = Append(groups, current_group)
                    /\ group_pc' = "final"
               ELSE /\ group_pc' = "done"
                    /\ UNCHANGED groups
            /\ UNCHANGED <<taken, current_subject, current_group>>
       ELSE LET quad == quads[taken + 1]
            IN  /\ taken' = taken + 1
                /\ IF subject_changed(quad, current_subject)
                   THEN IF emits(current_group)
                        THEN /\ groups' = Append(groups, current_group)
                             /\ group_pc' = "yielded"
                             /\ UNCHANGED <<current_subject, current_group>>
                        ELSE /\ current_subject' = quad.subject
                             /\ current_group' = <<quad>>
                             /\ UNCHANGED <<groups, group_pc>>
                   ELSE /\ current_group' = Append(current_group, quad)
                        /\ UNCHANGED <<current_subject, groups, group_pc>>
    /\ UNCHANGED <<quads, parser_vars, download_vars>>

\* the consumer pulls again: the generator resumes after its yield, opens
\* the new group with the quad it holds, or ends after the last yield
group_resume ==
    /\ group_pc \in {"yielded", "final"}
    /\ IF group_pc = "yielded"
       THEN /\ current_subject' = quads[taken].subject
            /\ current_group' = <<quads[taken]>>
            /\ group_pc' = "loop"
       ELSE /\ group_pc' = "done"
            /\ UNCHANGED <<current_subject, current_group>>
    /\ UNCHANGED <<quads, taken, groups, parser_vars, download_vars>>

(***************************************************************************)
(* Downloader: scripts/download_wdc_events.py                              *)
(***************************************************************************)
\* the retries of one download_file call
max_retries == 5

\* the number of part files (133 in the script)
NUM_PARTS == 2

DigitText == <<"0", "1", "2", "3", "4", "5", "6", "7", "8", "9">>

\* one of the three metadata files
METADATA_FILES == <<<<"Event_lookup.csv">>>>

\* part_0.gz ... part_{NUM_PARTS-1}.gz
get_part_files == [k \in 1..NUM_PARTS |-> <<"part_", DigitText[k], ".gz">>]

get_all_files == METADATA_FILES \o get_part_files

\* files, by metadata_only and parts_only
FileLists == {METADATA_FILES, get_part_files, get_all_files}

Names(files) == {files[k] : k \in 1..Len(files)}

Failed(name, message) == [name |-> name, message |-> message]

\* results, with the files that exist already skipped
Results(success, failed, skipped) ==
    [success |-> success, failed |-> failed, skipped |-> skipped]

\* the remaining files, to_download[n:], each failed by the shutdown
remaining_failed_after(queue, n) ==
    [k \in 1..(Len(queue) - n - 1) |-> Failed(queue[n + 1 + k], "Shutdown requested")]

remaining_failed(queue, n) ==
    [k \in 1..(Len(queue) - n) |-> Failed(queue[n + k], "Shutdown requested")]

\* success, message = download_file(url, dest), recorded in results
recorded(res, name, success, message) ==
    IF success
    THEN [res EXCEPT !.success = Append(@, name)]
    ELSE [res EXCEPT !.failed = Append(@, Failed(name, message))]

\* download_file returns (success, message) to download_all, which records it
returns(success, message) ==
    /\ results' = recorded(results, to_download[file_index + 1], success, message)
    /\ download_pc' = "recorded"
    /\ UNCHANGED <<shutdown_requested, to_download, file_index, attempt, attempted>>

\* download_all has its queue: it returns at once if the queue is empty and
\* enters its loop otherwise
download_all ==
    /\ download_pc = "queued"
    /\ download_pc' = IF to_download = <<>> THEN "returned" ELSE "top"
    /\ UNCHANGED <<shutdown_requested, to_download, results, file_index, attempt,
                   attempted, parser_vars, group_vars>>

\* the top of the loop over to_download: the loop is over, or the flag is
\* seen and what remains is failed, or download_file is called
next_download ==
    /\ download_pc = "top"
    /\ IF file_index = Len(to_download)
       THEN /\ download_pc' = "returned"
            /\ UNCHANGED <<results, attempt, attempted>>
       ELSE IF shutdown_requested
       THEN /\ results' = [results EXCEPT
                              !.failed = @ \o remaining_failed(to_download, file_index)]
            /\ download_pc' = "returned"
            /\ UNCHANGED <<attempt, attempted>>
       ELSE /\ attempted' = Append(attempted, to_download[file_index + 1])
            /\ attempt' = 0
            /\ download_pc' = "attempt"
            /\ UNCHANGED results
    /\ UNCHANGED <<shutdown_requested, to_download, file_index, parser_vars, group_vars>>

\* download_file, the top of its retry loop
download_file_attempt ==
    /\ download_pc = "attempt"
    /\ IF attempt = max_retries
       THEN returns(FALSE, "Failed after attempts")
       ELSE IF shutdown_requested
       THEN returns(FALSE, "Shutdown requested")
       ELSE /\ download_pc' = "request"
            /\ UNCHANGED download_vars_but_pc
    /\ UNCHANGED <<parser_vars, group_vars>>

\* download_file, the request: the server answers, or answers 416 for a
\* partial file that is complete, or the attempt fails and the next one
\* follows at once or after a wait, or an unexpected error ends the call
download_file_request ==
    /\ download_pc = "request"
    /\ \E answer \in {"ok", "complete", "retry", "wait", "error"} :
          CASE answer = "ok" ->
                   /\ download_pc' = "reading"
                   /\ UNCHANGED download_vars_but_pc
            [] answer = "complete" -> returns(TRUE, "Already complete")
            [] answer = "retry" ->
                   /\ attempt' = attempt + 1
                   /\ download_pc' = "attempt"
                   /\ UNCHANGED <<shutdown_requested, to_download, results, file_index,
                                  attempted>>
            [] answer = "wait" ->
                   /\ download_pc' = "waiting"
                   /\ UNCHANGED download_vars_but_pc
            [] answer = "error" -> returns(FALSE, "Error")
    /\ UNCHANGED <<parser_vars, group_vars>>

\* download_file, the top of its read loop
download_file_read_check ==
    /\ download_pc = "reading"
    /\ IF shutdown_requested
       THEN returns(FALSE, "Shutdown requested")
       ELSE /\ download_pc' = "read"
            /\ UNCHANGED download_vars_but_pc
    /\ UNCHANGED <<parser_vars, group_vars>>

\* download_file, response.read: a chunk, the end of the file, a network
\* error or an unexpected error
download_file_read ==
    /\ download_pc = "read"
    /\ \E answer \in {"chunk", "end", "wait", "error"} :
          CASE answer = "chunk" ->
                   /\ download_pc' = "reading"
                   /\ UNCHANGED download_vars_but_pc
            [] answer = "end" -> returns(TRUE, "Downloaded")
            [] answer = "wait" ->
                   /\ download_pc' = "waiting"
                   /\ UNCHANGED download_vars_but_pc
            [] answer = "error" -> returns(FALSE, "Error")
    /\ UNCHANGED <<parser_vars, group_vars>>

\* download_file, the wait before the next attempt, which the flag ends
download_file_wait ==
    /\ download_pc = "waiting"
    /\ IF shutdown_requested
       THEN returns(FALSE, "Shutdown requested")
       ELSE /\ attempt' = attempt + 1
            /\ download_pc' = "attempt"
            /\ UNCHANGED <<shutdown_requested, to_download, results, file_index,
                           attempted>>
    /\ UNCHANGED <<parser_vars, group_vars>>

\* the delay between files and the step of the loop to its next file
delay_between_files ==
    /\ download_pc = "recorded"
    /\ file_index' = file_index + 1
    /\ download_pc' = "top"
    /\ UNCHANGED <<shutdown_requested, to_download, results, attempt, attempted,
                   parser_vars, group_vars>>

\* SIGINT: the first sets the flag, the second exits the process
signal_handler ==
    /\ download_pc \notin {"idle", "returned", "exited"}
    /\ IF shutdown_requested
       THEN /\ download_pc' = "exited"
            /\ UNCHANGED shutdown_requested
       ELSE /\ shutdown_requested' = TRUE
            /\ UNCHANGED download_pc
    /\ UNCHANGED <<to_download, results, file_index, attempt, attempted,
                   parser_vars, group_vars>>

(***************************************************************************)
(* Specifications                                                          *)
(***************************************************************************)
\* a parser just constructed, nothing streamed and nothing called
ParserUnused ==
    /\ allowed_domains = NoAllowList
    /\ stats = [c \in Counters |-> 0]
    /\ file = <<>>
    /\ status = [s \in Streams |-> "idle"]
    /\ pos = [s \in Streams |-> 0]
    /\ yielded = [s \in Streams |-> <<>>]
    /\ yield_lineno = [s \in Streams |-> <<>>]
    /\ end_stats = [s \in Streams |-> NoStats]
    /\ snapshot = NoStats
    /\ calls = 0
    /\ last_result = NoQuad
    /\ handle = [s \in Streams |-> "none"]
    /\ failure = [s \in Streams |-> "none"]
    /\ snapshot_alias = FALSE
    /\ writes = 0
    /\ ret = Pending

ParserIdle == ParserUnused /\ arg = NoInput

GrouperIdle ==
    /\ quads = <<>>
    /\ taken = 0
    /\ current_subject = None
    /\ current_group = <<>>
    /\ groups = <<>>
    /\ group_pc = "idle"

\* the script not run
DownloaderIdle ==
    /\ shutdown_requested = FALSE
    /\ to_download = <<>>
    /\ results = Results(<<>>, <<>>, <<>>)
    /\ file_index = 0
    /\ attempt = 0
    /\ attempted = <<>>
    /\ download_pc = "idle"

\* NQuadsParser(allowed_domains) and a first call of stream_file(path)
Init ==
    /\ allowed_domains \in AllowLists
    /\ stats = [c \in Counters |-> 0]
    /\ file \in Files
    /\ status = [s \in Streams |-> IF s = 1 THEN "created" ELSE "idle"]
    /\ pos = [s \in Streams |-> 0]
    /\ yielded = [s \in Streams |-> <<>>]
    /\ yield_lineno = [s \in Streams |-> <<>>]
    /\ end_stats = [s \in Streams |-> NoStats]
    /\ snapshot = NoStats
    /\ calls = 0
    /\ last_result = NoQuad
    /\ handle = [s \in Streams |-> "none"]
    /\ failure = [s \in Streams |-> "none"]
    /\ snapshot_alias = FALSE
    /\ writes = 0
    /\ arg = NoInput
    /\ ret = Pending
    /\ GrouperIdle
    /\ DownloaderIdle

Next ==
    \/ \E s \in Streams : stream_file(s)
    \/ second_pass

Spec == Init /\ [][Next]_vars

\* the same, the caller also calling get_stats() and parse_line(line)
\* between its pulls
InitCalls ==
    /\ Init
    /\ file \in FilesOver(DirectLineIds)
    /\ allowed_domains \in {NoAllowList, AllowList({HostT})}

NextCalls ==
    \/ \E s \in Streams : stream_file(s)
    \/ second_pass
    \/ get_stats
    \/ \E id \in DirectLineIds : call_parse_line(id)

SpecCalls == InitCalls /\ [][NextCalls]_vars

\* two generators of one parser, pulled in any order, closed early or
\* failing on I/O
InitStreams == InitCalls

NextStreams ==
    \/ \E s \in Streams : stream_file(s)
    \/ second_pass
    \/ open_second
    \/ \E s \in Streams : open_fails(s)
    \/ \E s \in Streams : read_fails(s)
    \/ \E s \in Streams : close(s)

SpecStreams == InitStreams /\ [][NextStreams]_vars

\* one direct call parse_line(line) on a new parser
InitParse ==
    /\ ParserUnused
    /\ GrouperIdle
    /\ DownloaderIdle
    /\ arg \in LineInputs

NextParse == direct_parse_line

SpecParse == InitParse /\ [][NextParse]_vars

\* one call parse_term(token)
InitTerm ==
    /\ ParserUnused
    /\ GrouperIdle
    /\ DownloaderIdle
    /\ arg \in TermInputs

NextTerm == direct_parse_term

SpecTerm == InitTerm /\ [][NextTerm]_vars

\* a stream pulled by a caller that asks for the counters and writes to the
\* mapping it gets
InitStats ==
    /\ Init
    /\ file \in FilesOver({1, 7})
    /\ allowed_domains = NoAllowList

NextStats ==
    \/ \E s \in Streams : stream_file(s)
    \/ get_stats
    \/ \E c \in Counters : write_snapshot(c)

SpecStats == InitStats /\ [][NextStats]_vars

\* group_by_subject(quads) on a finite input
InitGroup ==
    /\ ParserIdle
    /\ quads \in QuadInputs
    /\ taken = 0
    /\ current_subject = None
    /\ current_group = <<>>
    /\ groups = <<>>
    /\ group_pc = "loop"
    /\ DownloaderIdle

NextGroup ==
    \/ group_by_subject
    \/ group_resume

SpecGroup == InitGroup /\ [][NextGroup]_vars

\* download_all on the files of one of the file lists, some of them on disk
\* already, with SIGINT arriving at any moment
InitDownload ==
    /\ ParserIdle
    /\ GrouperIdle
    /\ shutdown_requested = FALSE
    /\ \E files \in FileLists : \E existing \in SUBSET Names(files) :
          /\ to_download = SelectSeq(files, LAMBDA f : f \notin existing)
          /\ results = Results(<<>>, <<>>, SelectSeq(files, LAMBDA f : f \in existing))
    /\ file_index = 0
    /\ attempt = 0
    /\ attempted = <<>>
    /\ download_pc = "queued"

\* a step of the script itself
download_step ==
    \/ download_all
    \/ next_download
    \/ download_file_attempt
    \/ download_file_request
    \/ download_file_read_check
    \/ download_file_read
    \/ download_file_wait
    \/ delay_between_files

NextDownload ==
    \/ download_step
    \/ signal_handler

SpecDownload == InitDownload /\ [][NextDownload]_vars

(***************************************************************************)
(* Properties                                                              *)
(***************************************************************************)
\* generator s reads its next line in this step
ReadsLine(s) == pos'[s] = pos[s] + 1

\* the line generator s reads next
NextLine(s) == file[pos[s] + 1]

\* the tokens parse_line isolates in each line of the pool
PartsTable == [id \in LineIds |-> line_parts(LineText(id))]

\* the kinds parse_term gives the four tokens of each line of the pool
TokenTypes ==
    [id \in LineIds |->
        [subject   |-> parse_term(PartsTable[id].subject_part).term_type,
         predicate |-> parse_term(PartsTable[id].predicate_part).term_type,
         object    |-> parse_term(PartsTable[id].object_part).term_type,
         graph     |-> parse_term(PartsTable[id].graph_part).term_type]]

\* the domain of the Quad of each line of the pool that has one
DomainOf ==
    [id \in LineIds |->
        IF ParseTable[id].quad = NoQuad THEN <<>> ELSE domain(ParseTable[id].quad)]

\* the domain without a leading "www."
strip_leading_www(d) ==
    IF startswith(d, <<"w", "w", "w", ".">>) THEN SliceFrom(d, 4) ELSE d

\* the line numbers at which generator s yielded
YieldLines(s) == {yield_lineno[s][k] : k \in 1..Len(yield_lineno[s])}

\* C1 (step): a line on which the tokenizer fails is skipped: it adds exactly
\* one to parse_errors, nothing to the other two outcome counters, yields
\* nothing and leaves the generator running on to the next line
C1_Step ==
    \A s \in Streams :
        (ReadsLine(s) /\ PartsTable[NextLine(s)].status = "error") =>
            /\ stats'.parse_errors = stats.parse_errors + 1
            /\ stats'.quads_parsed = stats.quads_parsed
            /\ stats'.domain_filtered = stats.domain_filtered
            /\ yielded'[s] = yielded[s]
            /\ status'[s] = "running"

\* C1 (end): with no domain filter, a generator that has run to the end of
\* the file has yielded every well-formed statement of it, in file order
C1_Final ==
    \A s \in Streams :
        (status[s] = "exhausted" /\ ~truthy(allowed_domains)) =>
            /\ \A i \in 1..Len(file) :
                   LinePool[file[i]] \in WellFormedLines => i \in YieldLines(s)
            /\ \A k \in 1..(Len(yield_lineno[s]) - 1) :
                   yield_lineno[s][k] < yield_lineno[s][k + 1]

C2_ThreeTermLineFails ==
    [][\A s \in Streams :
          (ReadsLine(s) /\ LinePool[NextLine(s)] \in ThreeTermLines) =>
              /\ yielded'[s] = yielded[s]
              /\ stats'.parse_errors = stats.parse_errors + 1]_vars

\* a line parse_line splits into four tokens of which one is 'unknown'
HasUnknownToken(id) ==
    /\ PartsTable[id].status = "ok"
    /\ \E k \in {"subject", "predicate", "object", "graph"} : TokenTypes[id][k] = "unknown"

\* C3: a line with a token parse_term classifies as 'unknown' is a parse
\* failure: reading it yields no Quad and adds 1 to parse_errors
C3_UnknownTermFails ==
    [][\A s \in Streams :
          (ReadsLine(s) /\ HasUnknownToken(NextLine(s))) =>
              /\ yielded'[s] = yielded[s]
              /\ stats'.parse_errors = stats.parse_errors + 1]_vars

\* C4: every yielded Quad has its subject from an IRI or blank-node token,
\* its predicate from an IRI token and its graph from a bracketed IRI token
C4_YieldedTermKinds ==
    \A s \in Streams : \A k \in 1..Len(yielded[s]) :
        /\ yielded[s][k].subject_type \in {"iri", "blank"}
        /\ TokenTypes[file[yield_lineno[s][k]]].subject \in {"iri", "blank"}
        /\ TokenTypes[file[yield_lineno[s][k]]].predicate = "iri"
        /\ TokenTypes[file[yield_lineno[s][k]]].graph = "iri"

\* the domain, as it is or without a leading "www.", is in the allow-list
Listed(d) ==
    d \in allowed_domains.domains \/ strip_leading_www(d) \in allowed_domains.domains

\* C5: under a non-empty allow-list each parsed quad is either listed (its
\* domain, or its domain with www. stripped), and then yielded and counted in
\* quads_parsed alone, or not listed, and then not yielded and counted in
\* domain_filtered alone
C5_KeptOrFiltered ==
    [][\A s \in Streams :
          (/\ ReadsLine(s)
           /\ allowed_domains.given
           /\ allowed_domains.domains # {}
           /\ ParseTable[NextLine(s)].quad # NoQuad) =>
              IF Listed(DomainOf[NextLine(s)])
              THEN /\ yielded'[s] = Append(yielded[s], ParseTable[NextLine(s)].quad)
                   /\ stats'.quads_parsed = stats.quads_parsed + 1
                   /\ stats'.domain_filtered = stats.domain_filtered
              ELSE /\ yielded'[s] = yielded[s]
                   /\ stats'.domain_filtered = stats.domain_filtered + 1
                   /\ stats'.quads_parsed = stats.quads_parsed
                   /\ stats'.parse_errors = stats.parse_errors]_vars

\* C6: under a non-empty allow-list no quad is yielded unless its domain, as
\* it is or with only a leading www. removed, is in the allow-list
C6_YieldedOnlyIfListed ==
    (allowed_domains.given /\ allowed_domains.domains # {}) =>
        \A s \in Streams : \A k \in 1..Len(yielded[s]) :
            Listed(DomainOf[file[yield_lineno[s][k]]])

\* C9: two passes over the same file yield the same Quads and end with the
\* same counters
C9_ReparseIdentical ==
    (status[1] = "exhausted" /\ status[2] = "exhausted") =>
        /\ yielded[1] = yielded[2]
        /\ end_stats[1] = end_stats[2]

\* C10: each counter is a non-negative integer and no step of the stream, no
\* parse_line call and no get_stats call decreases it
C10_CountersMonotonic ==
    /\ [](\A c \in Counters : stats[c] \in Nat)
    /\ [][\A c \in Counters : stats'[c] >= stats[c]]_vars

\* every counter has grown, with a direct parse_line call made and an
\* earlier get_stats snapshot at hand
C10_Witness ==
    /\ calls >= 1
    /\ snapshot # NoStats
    /\ snapshot # stats
    /\ stats.lines_read >= 2
    /\ stats.quads_parsed >= 1
    /\ stats.parse_errors >= 1
    /\ stats.domain_filtered >= 1

\* the groups one after the other
Flatten(gs) ==
    LET F[k \in 0..Len(gs)] == IF k = 0 THEN <<>> ELSE F[k - 1] \o gs[k]
    IN  F[Len(gs)]

SubjectsOf(qs) == [k \in 1..Len(qs) |-> qs[k].subject]

SizesOf(gs) == [k \in 1..Len(gs) |-> Len(gs[k])]

\* the positions of the input at which a run of equal subjects starts
RunStarts(qs) == {i \in 1..Len(qs) : i = 1 \/ qs[i].subject # qs[i - 1].subject}

\* C7: the groups are the maximal runs of consecutive quads of one subject:
\* a group holds one subject, adjacent groups hold different subjects, there
\* are as many groups as runs, and subjects A A B B B A give sizes 2 3 1
C7_GroupsAreMaximalRuns ==
    /\ \A k \in 1..Len(groups) : \A j \in 1..Len(groups[k]) :
           groups[k][j].subject = groups[k][1].subject
    /\ \A k \in 1..(Len(groups) - 1) : groups[k][1].subject # groups[k + 1][1].subject
    /\ group_pc = "done" => Len(groups) = Cardinality(RunStarts(quads))
    /\ (group_pc = "done"
        /\ SubjectsOf(quads) = <<<<"A">>, <<"A">>, <<"B">>, <<"B">>, <<"B">>, <<"A">>>>)
       => SizesOf(groups) = <<2, 3, 1>>

\* subjects A A B B B A have been grouped: the second run of A is a group of
\* its own
C7_Witness ==
    /\ group_pc = "done"
    /\ SubjectsOf(quads) = <<<<"A">>, <<"A">>, <<"B">>, <<"B">>, <<"B">>, <<"A">>>>
    /\ SizesOf(groups) = <<2, 3, 1>>

\* C8: every emitted group is non-empty; the groups emitted so far, then the
\* open group, are the quads pulled so far, in order; at the end the groups
\* one after the other are the input, and an empty input gives no group
C8_GroupsPartitionInput ==
    /\ \A k \in 1..Len(groups) : groups[k] # <<>>
    /\ group_pc = "loop" => Flatten(groups) \o current_group = SubSeq(quads, 1, taken)
    /\ group_pc = "done" => Flatten(groups) = quads
    /\ (group_pc = "done" /\ quads = <<>>) => groups = <<>>

\* an input of several runs, one of them longer than a quad, grouped to its end
C8_Witness ==
    /\ group_pc = "done"
    /\ Len(groups) >= 3
    /\ \E k \in 1..Len(groups) : Len(groups[k]) >= 2
    /\ Flatten(groups) = quads

\* the states of a generator that can still be pulled
OpenStates == {"created", "suspended", "running"}

\* the states of a generator that has ended
EndedStates == {"exhausted", "closed", "failed"}

\* generator s takes no part in the step
NotPulled(s) == pos'[s] = pos[s] /\ status'[s] = status[s]

\* C11: with two streams open, the counters reported for a stream do not
\* change in a step in which that stream is not pulled
C11_StreamOwnsCounters ==
    [][\A s \in Streams :
          ((\A t \in Streams : status[t] \in OpenStates) /\ NotPulled(s)) =>
              stats' = stats]_vars

\* C12: a stream that has ended, at end of file, by the caller closing it
\* early or by an I/O error, does not hold its handle open
C12_HandleReleased ==
    \A s \in Streams : status[s] \in EndedStates => handle[s] # "open"

\* one stream closed early after a yield, the other failed at a read, both
\* with their handle released
C12_Witness ==
    /\ status[1] = "closed"
    /\ Len(yielded[1]) = 1
    /\ handle[1] = "released"
    /\ status[2] = "failed"
    /\ pos[2] >= 1
    /\ handle[2] = "released"

\* generator s raises to the caller in this step, no line read yet
FailsAtOpen(s) == failure[s] = "none" /\ failure'[s] # "none" /\ pos[s] = 0

\* C13: an I/O failure at open reaches the caller as an exception, not as a
\* parse failure: the step yields nothing and leaves the counters alone, the
\* stream has yielded no Quad, and a failed stream is never pulled again
C13_OpenFailureSurfaced ==
    /\ [][\A s \in Streams :
             FailsAtOpen(s) =>
                 /\ failure'[s] = "OSError"
                 /\ status'[s] = "failed"
                 /\ stats' = stats
                 /\ yielded' = yielded
                 /\ yielded[s] = <<>>]_vars
    /\ [][\A s \in Streams :
             status[s] = "failed" =>
                 /\ status'[s] = "failed"
                 /\ pos'[s] = pos[s]
                 /\ handle'[s] = handle[s]
                 /\ yielded'[s] = yielded[s]]_vars

\* the second stream failed at open, with no handle, after the first one had
\* counted a parse error
C13_Witness ==
    /\ failure[2] = "OSError"
    /\ status[2] = "failed"
    /\ pos[2] = 0
    /\ handle[2] = "none"
    /\ yielded[2] = <<>>
    /\ stats.parse_errors = 1
    /\ stats.lines_read >= 1

\* the direct call has returned
Returned == ret # Pending

\* C14: a line whose object is a typed literal "V"^^<D>, V without double
\* quotes, between a well-formed subject, predicate and graph, parses to a
\* Quad whose object is a literal of value V and datatype D
C14_TypedLiteralObject ==
    (Returned /\ arg.form = "typed") =>
        /\ ret # NoQuad
        /\ ret.object_type = "literal"
        /\ ret.object_value = arg.expect.value
        /\ ret.object_datatype = arg.expect.datatype

\* a typed literal with a space and an angle bracket in its value has been
\* parsed
C14_Witness ==
    /\ Returned
    /\ arg.form = "typed"
    /\ arg.expect.value = <<" ", "<">>
    /\ ret # NoQuad
    /\ ret.object_value = <<" ", "<">>
    /\ ret.object_datatype = <<"x", ":", "/", "/", "w", "/", "X", "#", "d">>

\* C15: a line whose object is a language-tagged literal "V"@tag parses to
\* a Quad whose object is a literal of value V and of language tag, the tag
\* without its @ marker
C15_LanguageTagWithoutMarker ==
    (Returned /\ arg.form = "lang") =>
        /\ ret # NoQuad
        /\ ret.object_type = "literal"
        /\ ret.object_value = arg.expect.value
        /\ ret.object_datatype = arg.expect.language

\* C16: a line of four single-space-separated terms and " .", the subject a
\* blank node or an IRI and the other three IRIs, parses to the Quad of the
\* four decoded terms, in their order
C16_FourTermsInOrder ==
    (Returned /\ arg.form = "iri4") => ret = arg.expect

\* the statement _:b0 <p> <o> <g> . has been parsed to its Quad
C16_Witness ==
    /\ Returned
    /\ arg.form = "iri4"
    /\ arg.text = Stmt(BNode(<<"b", "0">>), IRI(<<"p">>), IRI(<<"o">>), IRI(<<"g">>))
    /\ ret = Quad(<<"b", "0">>, "blank", <<"p">>, <<"o">>, "iri", None, <<"g">>)

\* C17: for a token <X>, parse_term returns kind IRI, value exactly X and
\* no datatype or language
C17_BracketedTokenIsIri ==
    (Returned /\ arg.form = "iri") => ret = arg.expect

\* a token with a space and a bracket between its brackets has been decoded
C17_Witness ==
    /\ Returned
    /\ arg.text = <<"<", " ", ">", ">">>
    /\ ret.term_type = "iri"
    /\ ret.value = <<" ", ">">>
    /\ ret.datatype = None

\* C19: a well-formed four-term statement parses to the same Quad whether
\* it ends with " .", with "." or with nothing
C19_TerminatorTolerated ==
    (Returned /\ arg.form = "terminator") =>
        /\ ret # NoQuad
        /\ ret = parse_line(arg.expect.with_terminator).quad

\* a statement written without any terminator has been parsed to a Quad
C19_Witness ==
    /\ Returned
    /\ arg.form = "terminator"
    /\ arg.text = StmtBody(IRI(<<"s">>), IRI(<<"p">>), IRI(<<"o">>),
                           IRI(Url(<<"h">>, HostT, <<"/">>)))
    /\ ret = Quad(<<"s">>, "iri", <<"p">>, <<"o">>, "iri", None, Url(<<"h">>, HostT, <<"/">>))

\* the line is empty, is whitespace only or starts with "#"
IsBlankOrComment(id) ==
    \/ \A k \in 1..Len(LinePool[id]) : LinePool[id][k] \in Whitespace
    \/ (LinePool[id] # <<>> /\ LinePool[id][1] = "#")

\* C18: reading an empty line, a whitespace-only line or a line starting
\* with "#" adds 1 to lines_read, leaves the other three counters as they
\* are and yields nothing
C18_BlankAndCommentSkipped ==
    [][\A s \in Streams :
          (ReadsLine(s) /\ IsBlankOrComment(NextLine(s))) =>
              /\ stats'.lines_read = stats.lines_read + 1
              /\ stats'.quads_parsed = stats.quads_parsed
              /\ stats'.parse_errors = stats.parse_errors
              /\ stats'.domain_filtered = stats.domain_filtered
              /\ yielded' = yielded]_vars

\* a commented-out statement and a whitespace-only line have been read:
\* two lines counted, nothing else
C18_Witness ==
    /\ pos[1] = 2
    /\ Len(file) = 2
    /\ startswith(LinePool[file[1]], <<"#", "<", "s", ">">>)
    /\ LinePool[file[2]] = <<" ", "\t">>
    /\ stats.lines_read = 2
    /\ stats.quads_parsed = 0
    /\ stats.parse_errors = 0
    /\ stats.domain_filtered = 0
    /\ yielded[1] = <<>>

\* C20: the mapping get_stats returned stays as it is when the stream
\* advances, and a write to it leaves the parser's counters as they are
C20_SnapshotIndependent ==
    [][/\ pos' # pos => snapshot' = snapshot
       /\ writes' # writes => stats' = stats]_vars

\* a snapshot taken after one line, written to by the caller, and the
\* stream advanced one more line: each mapping kept its own values
C20_Witness ==
    /\ writes = 1
    /\ snapshot # NoStats
    /\ snapshot.lines_read = 1
    /\ snapshot.quads_parsed = 2
    /\ stats.lines_read = 2
    /\ stats.quads_parsed = 1

\* the object's language: object_datatype when it is written "@lang"
object_language(quad) ==
    IF quad.object_datatype # None /\ startswith(quad.object_datatype, <<"@">>)
    THEN SliceFrom(quad.object_datatype, 1)
    ELSE None

\* the object's datatype IRI: object_datatype when it is not a language
object_datatype_iri(quad) ==
    IF quad.object_datatype # None /\ ~startswith(quad.object_datatype, <<"@">>)
    THEN quad.object_datatype
    ELSE None

\* C21: the object of a Quad parse_line produced carries a datatype or a
\* language only when it is a literal, never both, and an IRI or blank-node
\* object carries neither
C21_DatatypeOnlyOnLiterals ==
    (Returned /\ ret # NoQuad) =>
        /\ (object_datatype_iri(ret) # None \/ object_language(ret) # None)
              => ret.object_type = "literal"
        /\ ~(object_datatype_iri(ret) # None /\ object_language(ret) # None)
        /\ ret.object_type \in {"iri", "blank"} => ret.object_datatype = None

\* a line with a typed literal object has been parsed to a Quad whose
\* literal object carries the datatype and no language
C21_Witness ==
    /\ Returned
    /\ arg.form = "typed"
    /\ ret # NoQuad
    /\ ret.object_type = "literal"
    /\ object_datatype_iri(ret) = <<"d">>
    /\ object_language(ret) = None

\* C22: what is left of a line after its graph and its object are taken off
\* is accepted only if it is exactly two whitespace-separated tokens: with
\* one token, or with three or more, parse_line returns no Quad and counts
\* one parse error
C22_TwoTokensOrFailure ==
    (Returned /\ arg.form = "tokens" /\ arg.expect.tokens # 2) =>
        /\ ret = NoQuad
        /\ stats.parse_errors = 1

\* C23: a line <s> <p> "V"@tag <g> . whose value V has whitespace in it, as
\* in "New York"@en, takes the literal branch, which isolates the whole
\* literal: the Quad's object is the literal of value V and its subject and
\* predicate are the line's first two terms
C23_LanguageLiteralWithSpace ==
    (Returned /\ arg.form = "lang" /\ \E k \in 1..Len(arg.expect.value) :
                                          arg.expect.value[k] \in Whitespace) =>
        /\ ret # NoQuad
        /\ ret.object_type = "literal"
        /\ ret.object_value = arg.expect.value
        /\ ret.subject = <<"s">>
        /\ ret.predicate = <<"p">>

\* C24: in a literal's value parse_term replaces exactly the four escapes
\* backslash-quote, backslash-n, backslash-t and backslash-backslash by the
\* character each stands for, and leaves everything else, \uXXXX included,
\* as it is written
C24_FourEscapesDecoded ==
    (Returned /\ arg.form = "literal") => ret = arg.expect

\* the number of quads in the groups emitted so far
Emitted(gs) == Len(Flatten(gs))

\* the open run has ended: the source is exhausted or its next quad has
\* another subject
RunEnds ==
    /\ group_pc = "loop"
    /\ current_group # <<>>
    /\ taken < Len(quads) => quads[taken + 1].subject # current_subject

C25_Step ==
    /\ RunEnds => groups' = Append(groups, current_group)
    /\ (RunEnds /\ taken < Len(quads)) => taken' = taken + 1 /\ group_pc' = "yielded"
    /\ (RunEnds /\ taken = Len(quads)) => taken' = taken /\ group_pc' = "final"
    /\ groups' # groups => RunEnds
    /\ group_pc \in {"yielded", "final"} => taken' = taken /\ groups' = groups

C25_Held ==
    /\ group_pc = "yielded" => taken = Emitted(groups) + 1
    /\ group_pc = "final" => taken = Emitted(groups) /\ taken = Len(quads)
    /\ group_pc = "loop" => taken = Emitted(groups) + Len(current_group)
    /\ \A j \in 1..Len(current_group) : current_group[j].subject = current_subject

\* C25: group_by_subject hands a group to its consumer at the step that
\* pulls the one quad after that group's run, and pulls nothing more until
\* the consumer resumes it; the last group is handed over at the step that
\* finds the source exhausted; what it holds besides the groups handed over
\* is one open run of one subject
C25_GroupEmittedAtRunEnd == [][C25_Step]_vars /\ []C25_Held

\* the second group has been handed over with one quad pulled beyond it and
\* more of the source left
C25_Witness ==
    /\ group_pc = "yielded"
    /\ Len(groups) = 2
    /\ Len(groups[2]) = 2
    /\ taken = Emitted(groups) + 1
    /\ taken < Len(quads)

\* the number of entries results['success'] and results['failed'] hold for
\* a file name
TimesRecorded(name) ==
    Cardinality({k \in 1..Len(results.success) : results.success[k] = name})
        + Cardinality({k \in 1..Len(results.failed) : results.failed[k].name = name})

EveryFileRecordedOnce == \A name \in Names(to_download) : TimesRecorded(name) = 1

NeverAttemptedAreShutdownFailures ==
    \A name \in Names(to_download) \ Names(attempted) :
        \E k \in 1..Len(results.failed) :
            results.failed[k] = Failed(name, "Shutdown requested")

\* download_all has returned its results after a shutdown request
ReturnedAfterShutdown == download_pc = "returned" /\ shutdown_requested

\* the run of the script is over after a shutdown request: download_all has
\* returned or the process has exited
EndedAfterShutdown == download_pc \in {"returned", "exited"} /\ shutdown_requested

\* no download_file call is made at a loop top that sees the flag
C26_NoDownloadOnceFlagSeen ==
    (download_pc = "top" /\ shutdown_requested) => attempted' = attempted

C26_RecordedAtMostOnce == \A name \in Names(to_download) : TimesRecorded(name) <= 1

\* C26 as it is stated: whenever the shutdown flag is set, every queued file
\* ends up exactly once in results' success or failed list, every file
\* never attempted is failed with 'Shutdown requested', and no download is
\* started once the loop top has seen the flag
C26_ShutdownRecordsEveryFile ==
    /\ [][C26_NoDownloadOnceFlagSeen]_vars
    /\ []C26_RecordedAtMostOnce
    /\ [](EndedAfterShutdown =>
              EveryFileRecordedOnce /\ NeverAttemptedAreShutdownFailures)

\* C26, amended: the same of the results download_all returns; a second
\* SIGINT exits the process and download_all returns nothing
C26_ReturnedResultsRecordEveryFile ==
    /\ [][C26_NoDownloadOnceFlagSeen]_vars
    /\ []C26_RecordedAtMostOnce
    /\ [](ReturnedAfterShutdown =>
              EveryFileRecordedOnce /\ NeverAttemptedAreShutdownFailures)

\* three files were queued; the flag was set during the second download:
\* the first is a success, the second and the third, never attempted, are
\* failed by the shutdown
C26_Witness ==
    /\ ReturnedAfterShutdown
    /\ Len(to_download) = 3
    /\ attempted = SubSeq(to_download, 1, 2)
    /\ results.success = <<to_download[1]>>
    /\ results.failed = <<Failed(to_download[2], "Shutdown requested"),
                          Failed(to_download[3], "Shutdown requested")>>

\* the number of blank and comment lines among the first n lines of the file
BlankOrCommentRead(n) == Cardinality({k \in 1..n : IsBlankOrComment(file[k])})

\* the first stream of the parser is the only one so far
SingleStream == status[1] # "idle" /\ status[2] = "idle"

C27_Step ==
    (SingleStream /\ ReadsLine(1)) =>
        /\ stats'.lines_read = stats.lines_read + 1
        /\ \A c \in Counters : stats'[c] \in {stats[c], stats[c] + 1}
        /\ Cardinality({c \in Counters \ {"lines_read"} : stats'[c] # stats[c]}) <= 1

C27_Balance ==
    (SingleStream /\ status[1] \in {"suspended", "exhausted"}) =>
        /\ stats.lines_read = pos[1]
        /\ stats.lines_read = stats.quads_parsed + stats.parse_errors
                                + stats.domain_filtered + BlankOrCommentRead(pos[1])

\* C27: for a single stream of a new parser, wherever the stream is
\* suspended or exhausted, lines_read is the sum of quads_parsed,
\* parse_errors, domain_filtered and the number of blank and comment lines
\* read so far: each line adds 1 to lines_read and 1 to at most one of the
\* other three counters
C27_LinesReadBalance == [][C27_Step]_vars /\ []C27_Balance

\* a blank line and a statement of a domain that is not listed have been
\* read to the end of the file: two lines, one filtered, one blank
C27_Witness ==
    /\ SingleStream
    /\ status[1] = "exhausted"
    /\ stats.lines_read = 2
    /\ stats.domain_filtered = 1
    /\ stats.quads_parsed = 0
    /\ stats.parse_errors = 0
    /\ BlankOrCommentRead(pos[1]) = 1

\* the number of lines among the first n of the file that parse to a Quad
ParsedToQuad(n) == Cardinality({k \in 1..n : ParseTable[file[k]].quad # NoQuad})

\* C28: a parser constructed with the empty set as its allow-list applies
\* the filter: it yields no quad and counts every quad it parsed in
\* domain_filtered
C28_EmptyAllowListFiltersAll ==
    allowed_domains = AllowList({}) =>
        /\ \A s \in Streams : yielded[s] = <<>>
        /\ stats.quads_parsed = 0
        /\ SingleStream => stats.domain_filtered = ParsedToQuad(pos[1])

\* C29: no group holds two quads whose subjects have the same text and
\* different kinds: an IRI subject <x> followed by a blank-node subject _:x
\* gives two groups
C29_GroupsKeepSubjectKinds ==
    \A k \in 1..Len(groups) : \A j \in 1..Len(groups[k]) :
        groups[k][j].subject_type = groups[k][1].subject_type

\* C30: when the remainder ends with ">" and holds neither " <" nor a tab
\* followed by "<", as in <a b> <g> ., the start of the IRI object cannot
\* be found and the line is a parse failure: no Quad, one parse error
C30_ObjectStartNotFoundFails ==
    (Returned /\ arg.form = "noobj"
        /\ endswith(arg.expect.remainder, <<">">>)
        /\ ~contains(arg.expect.remainder, <<" ", "<">>)
        /\ ~contains(arg.expect.remainder, <<"\t", "<">>)) =>
        /\ ret = NoQuad
        /\ stats.parse_errors = 1

====
